---------------------------- MODULE Spec2Model ----------------------------
(***************************************************************************)
(* SQL Coach: the lesson/session state machine of src/sql_coach.py.        *)
(*                                                                         *)
(* The model follows SQLCoach.handle_command one input line at a time.     *)
(* Texts are TLA+ strings; a character is a string of length one.          *)
(***************************************************************************)
EXTENDS Integers, Sequences, FiniteSets, TLC

(***************************************************************************)
(* CURRICULUM (src/sql_coach.py 78-556).  The fields `description',        *)
(* `concept' and `challenge' are display texts that no command inspects;   *)
(* they are left out.  Every other field is the literal of the source.     *)
(***************************************************************************)
CURRICULUM ==
  [phases |-> <<
    [id |-> 1,
     title |-> "Foundations",
     lessons |-> <<
        [id |-> "1.1",
         title |-> "SELECT & FROM - Your Starting Point",
         hints |-> <<
           "You need SELECT and FROM - two keywords",
           "The columns you want are: campaign_name, bidding_strategy",
           "The table is: campaigns" >>,
         solution_steps |-> <<
           "SELECT",
           "SELECT campaign_name, bidding_strategy",
           "SELECT campaign_name, bidding_strategy FROM campaigns;" >>,
         answer |->
           "SELECT campaign_name, bidding_strategy FROM campaigns;",
         follow_up |->
           "Try: Show only SEARCH type campaigns (you'll need WHERE)"],
        [id |-> "1.2",
         title |-> "WHERE - Filtering Rows",
         hints |-> <<
           "Start with SELECT * FROM ad_performance_daily",
           "Add WHERE with two conditions",
           "Use AND to combine: device = 'MOBILE' AND impressions > 20000",
           "String values need quotes: 'MOBILE'" >>,
         solution_steps |-> <<
           "SELECT * FROM ad_performance_daily",
           "SELECT * FROM ad_performance_daily WHERE device = 'MOBILE'",
           "SELECT * FROM ad_performance_daily WHERE device = 'MOBILE' AND impressions > 20000;" >>,
         answer |->
           "SELECT * FROM ad_performance_daily WHERE device = 'MOBILE' AND impressions > 20000;",
         follow_up |->
           "Try: Find search terms with clicks but ZERO conversions (wasted spend)"],
        [id |-> "1.3",
         title |-> "ORDER BY & LIMIT",
         hints |-> <<
           "SELECT specific columns, not *",
           "ORDER BY clicks DESC for highest first",
           "Add LIMIT 5 at the end" >>,
         solution_steps |-> <<
           "SELECT date, campaign_id, clicks, cost_micros",
           "SELECT date, campaign_id, clicks, cost_micros FROM ad_performance_daily",
           "SELECT date, campaign_id, clicks, cost_micros FROM ad_performance_daily ORDER BY clicks DESC",
           "SELECT date, campaign_id, clicks, cost_micros FROM ad_performance_daily ORDER BY clicks DESC LIMIT 5;" >>,
         answer |->
           "SELECT date, campaign_id, clicks, cost_micros FROM ad_performance_daily ORDER BY clicks DESC LIMIT 5;",
         follow_up |->
           "Try converting cost_micros to dollars (divide by 1000000) and alias it"],
        [id |-> "1.4",
         title |-> "Execution Order - The Key Insight",
         hints |-> <<
           "Create an alias: cost_micros / 1000000.0 AS cost_usd",
           "You can use the alias in ORDER BY",
           "Include date and campaign_id for context" >>,
         solution_steps |-> <<
           "SELECT date, campaign_id, cost_micros / 1000000.0 AS cost_usd",
           "SELECT date, campaign_id, cost_micros / 1000000.0 AS cost_usd FROM ad_performance_daily",
           "SELECT date, campaign_id, cost_micros / 1000000.0 AS cost_usd FROM ad_performance_daily ORDER BY cost_usd DESC",
           "SELECT date, campaign_id, cost_micros / 1000000.0 AS cost_usd FROM ad_performance_daily ORDER BY cost_usd DESC LIMIT 5;" >>,
         answer |->
           "SELECT date, campaign_id, cost_micros / 1000000.0 AS cost_usd FROM ad_performance_daily ORDER BY cost_usd DESC LIMIT 5;",
         follow_up |->
           "Notice you CAN use cost_usd in ORDER BY. Try using it in WHERE and see why it fails."] >>],
    [id |-> 2,
     title |-> "Aggregation & GROUP BY",
     lessons |-> <<
        [id |-> "2.1",
         title |-> "Aggregate Functions",
         hints |-> <<
           "Use SUM() for each metric",
           "No GROUP BY needed - you want one total across everything",
           "Divide cost_micros by 1000000.0 for USD",
           "Use AS to create readable column names" >>,
         solution_steps |-> <<
           "SELECT SUM(impressions)",
           "SELECT SUM(impressions) AS total_impressions, SUM(clicks) AS total_clicks",
           "SELECT SUM(impressions) AS total_impressions, SUM(clicks) AS total_clicks, SUM(cost_micros) / 1000000.0 AS total_cost_usd",
           "SELECT SUM(impressions) AS total_impressions, SUM(clicks) AS total_clicks, SUM(cost_micros) / 1000000.0 AS total_cost_usd FROM ad_performance_daily;" >>,
         answer |->
           "SELECT SUM(impressions) AS total_impressions, SUM(clicks) AS total_clicks, SUM(cost_micros) / 1000000.0 AS total_cost_usd FROM ad_performance_daily;",
         follow_up |->
           "Add AVG(clicks) as avg_clicks to see average per row"],
        [id |-> "2.2",
         title |-> "GROUP BY - Aggregating by Category",
         hints |-> <<
           "SELECT campaign_id and your aggregates",
           "Use SUM() for each metric",
           "GROUP BY campaign_id at the end" >>,
         solution_steps |-> <<
           "SELECT campaign_id",
           "SELECT campaign_id, SUM(impressions) AS total_impressions",
           "SELECT campaign_id, SUM(impressions) AS total_impressions, SUM(clicks) AS total_clicks, SUM(cost_micros) / 1000000.0 AS total_cost_usd",
           "SELECT campaign_id, SUM(impressions) AS total_impressions, SUM(clicks) AS total_clicks, SUM(cost_micros) / 1000000.0 AS total_cost_usd FROM ad_performance_daily",
           "SELECT campaign_id, SUM(impressions) AS total_impressions, SUM(clicks) AS total_clicks, SUM(cost_micros) / 1000000.0 AS total_cost_usd FROM ad_performance_daily GROUP BY campaign_id;" >>,
         answer |->
           "SELECT campaign_id, SUM(impressions) AS total_impressions, SUM(clicks) AS total_clicks, SUM(cost_micros) / 1000000.0 AS total_cost_usd FROM ad_performance_daily GROUP BY campaign_id;",
         follow_up |->
           "Try grouping by campaign_id AND device to see breakdown by device"],
        [id |-> "2.3",
         title |-> "HAVING - Filtering After Aggregation",
         hints |-> <<
           "First write a GROUP BY query for campaign metrics",
           "Add HAVING after GROUP BY",
           "HAVING SUM(clicks) > 2000" >>,
         solution_steps |-> <<
           "SELECT campaign_id, SUM(clicks) AS total_clicks, SUM(cost_micros) / 1000000.0 AS total_cost_usd FROM ad_performance_daily GROUP BY campaign_id",
           "SELECT campaign_id, SUM(clicks) AS total_clicks, SUM(cost_micros) / 1000000.0 AS total_cost_usd FROM ad_performance_daily GROUP BY campaign_id HAVING SUM(clicks) > 2000;" >>,
         answer |->
           "SELECT campaign_id, SUM(clicks) AS total_clicks, SUM(cost_micros) / 1000000.0 AS total_cost_usd FROM ad_performance_daily GROUP BY campaign_id HAVING SUM(clicks) > 2000;",
         follow_up |->
           "Add WHERE device = 'MOBILE' to filter rows BEFORE grouping, keep HAVING"] >>],
    [id |-> 3,
     title |-> "JOINs",
     lessons |-> <<
        [id |-> "3.1",
         title |-> "INNER JOIN - Matching Rows Only",
         hints |-> <<
           "Start with FROM ad_performance_daily p",
           "JOIN campaigns c ON matching campaign_id",
           "Select: c.campaign_name, p.date, p.clicks, p.cost_micros" >>,
         solution_steps |-> <<
           "SELECT c.campaign_name, p.date, p.clicks, p.cost_micros",
           "SELECT c.campaign_name, p.date, p.clicks, p.cost_micros FROM ad_performance_daily p",
           "SELECT c.campaign_name, p.date, p.clicks, p.cost_micros FROM ad_performance_daily p INNER JOIN campaigns c ON p.campaign_id = c.campaign_id;" >>,
         answer |->
           "SELECT c.campaign_name, p.date, p.clicks, p.cost_micros FROM ad_performance_daily p INNER JOIN campaigns c ON p.campaign_id = c.campaign_id;",
         follow_up |->
           "Add GROUP BY c.campaign_name and aggregate to see totals per campaign name"],
        [id |-> "3.2",
         title |-> "LEFT JOIN - Keep All Left Rows",
         hints |-> <<
           "Start FROM campaigns (left table keeps all rows)",
           "LEFT JOIN ad_performance_daily",
           "Use COALESCE(SUM(p.clicks), 0) to replace NULL with 0",
           "GROUP BY c.campaign_name" >>,
         solution_steps |-> <<
           "SELECT c.campaign_name FROM campaigns c",
           "SELECT c.campaign_name FROM campaigns c LEFT JOIN ad_performance_daily p ON c.campaign_id = p.campaign_id",
           "SELECT c.campaign_name, COALESCE(SUM(p.clicks), 0) AS total_clicks FROM campaigns c LEFT JOIN ad_performance_daily p ON c.campaign_id = p.campaign_id",
           "SELECT c.campaign_name, COALESCE(SUM(p.clicks), 0) AS total_clicks FROM campaigns c LEFT JOIN ad_performance_daily p ON c.campaign_id = p.campaign_id GROUP BY c.campaign_name;" >>,
         answer |->
           "SELECT c.campaign_name, COALESCE(SUM(p.clicks), 0) AS total_clicks FROM campaigns c LEFT JOIN ad_performance_daily p ON c.campaign_id = p.campaign_id GROUP BY c.campaign_name;",
         follow_up |->
           "Which campaigns show 0? Why does LEFT JOIN matter vs INNER?"],
        [id |-> "3.3",
         title |-> "Multi-Table JOINs",
         hints |-> <<
           "FROM ad_performance_daily p (fact table)",
           "JOIN campaigns c ON campaign_id",
           "JOIN ad_groups ag ON ad_group_id",
           "GROUP BY c.campaign_name, ag.ad_group_name",
           "SUM the metrics" >>,
         solution_steps |-> <<
           "SELECT c.campaign_name, ag.ad_group_name",
           "SELECT c.campaign_name, ag.ad_group_name, SUM(p.impressions) AS total_impr, SUM(p.clicks) AS total_clicks, SUM(p.conversions) AS total_conv",
           "SELECT c.campaign_name, ag.ad_group_name, SUM(p.impressions) AS total_impr, SUM(p.clicks) AS total_clicks, SUM(p.conversions) AS total_conv FROM ad_performance_daily p",
           "SELECT c.campaign_name, ag.ad_group_name, SUM(p.impressions) AS total_impr, SUM(p.clicks) AS total_clicks, SUM(p.conversions) AS total_conv FROM ad_performance_daily p JOIN campaigns c ON p.campaign_id = c.campaign_id JOIN ad_groups ag ON p.ad_group_id = ag.ad_group_id",
           "SELECT c.campaign_name, ag.ad_group_name, SUM(p.impressions) AS total_impr, SUM(p.clicks) AS total_clicks, SUM(p.conversions) AS total_conv FROM ad_performance_daily p JOIN campaigns c ON p.campaign_id = c.campaign_id JOIN ad_groups ag ON p.ad_group_id = ag.ad_group_id GROUP BY c.campaign_name, ag.ad_group_name;" >>,
         answer |->
           "SELECT c.campaign_name, ag.ad_group_name, SUM(p.impressions) AS total_impr, SUM(p.clicks) AS total_clicks, SUM(p.conversions) AS total_conv FROM ad_performance_daily p JOIN campaigns c ON p.campaign_id = c.campaign_id JOIN ad_groups ag ON p.ad_group_id = ag.ad_group_id GROUP BY c.campaign_name, ag.ad_group_name;",
         follow_up |->
           "Add CTR column: SUM(clicks) * 100.0 / SUM(impressions) AS ctr"] >>],
    [id |-> 4,
     title |-> "Window Functions & CTEs",
     lessons |-> <<
        [id |-> "4.1",
         title |-> "Window Functions - The TSC III Separator",
         hints |-> <<
           "Use RANK() OVER (...)",
           "PARTITION BY campaign_id",
           "ORDER BY clicks DESC",
           "Give the rank an alias like click_rank" >>,
         solution_steps |-> <<
           "SELECT campaign_id, date, device, clicks",
           "SELECT campaign_id, date, device, clicks, RANK() OVER (...) AS click_rank",
           "SELECT campaign_id, date, device, clicks, RANK() OVER (PARTITION BY campaign_id ORDER BY clicks DESC) AS click_rank",
           "SELECT campaign_id, date, device, clicks, RANK() OVER (PARTITION BY campaign_id ORDER BY clicks DESC) AS click_rank FROM ad_performance_daily;" >>,
         answer |->
           "SELECT campaign_id, date, device, clicks, RANK() OVER (PARTITION BY campaign_id ORDER BY clicks DESC) AS click_rank FROM ad_performance_daily;",
         follow_up |->
           "Change RANK to ROW_NUMBER and DENSE_RANK - observe how ties differ"],
        [id |-> "4.2",
         title |-> "LAG/LEAD & Running Totals",
         hints |-> <<
           "Use a CTE or subquery to first get daily totals",
           "Filter WHERE campaign_id = 1",
           "GROUP BY date to get daily totals",
           "Then apply LAG(daily_clicks, 1) OVER (ORDER BY date)" >>,
         solution_steps |-> <<
           "First get daily totals: SELECT date, SUM(clicks) AS daily_clicks FROM ad_performance_daily WHERE campaign_id = 1 GROUP BY date",
           "Wrap in CTE: WITH daily AS (SELECT date, SUM(clicks) AS daily_clicks FROM ad_performance_daily WHERE campaign_id = 1 GROUP BY date)",
           "Add LAG: WITH daily AS (...) SELECT date, daily_clicks, LAG(daily_clicks, 1) OVER (ORDER BY date) AS prev_day_clicks FROM daily",
           "WITH daily AS (SELECT date, SUM(clicks) AS daily_clicks FROM ad_performance_daily WHERE campaign_id = 1 GROUP BY date) SELECT date, daily_clicks, LAG(daily_clicks, 1) OVER (ORDER BY date) AS prev_day_clicks FROM daily ORDER BY date;" >>,
         answer |->
           "WITH daily AS (SELECT date, SUM(clicks) AS daily_clicks FROM ad_performance_daily WHERE campaign_id = 1 GROUP BY date) SELECT date, daily_clicks, LAG(daily_clicks, 1) OVER (ORDER BY date) AS prev_day_clicks FROM daily ORDER BY date;",
         follow_up |->
           "Add day-over-day change: daily_clicks - LAG(...)"],
        [id |-> "4.3",
         title |-> "CTEs - Clean, Readable Queries",
         hints |-> <<
           "Create CTE: WITH campaign_metrics AS (SELECT campaign_id, SUM(cost_micros)/1000000.0 AS total_cost_usd, SUM(conversions) AS total_conversions FROM ad_performance_daily GROUP BY campaign_id)",
           "In main query, JOIN to campaigns",
           "Calculate CPA: total_cost_usd / total_conversions",
           "Use CASE WHEN to avoid divide by zero" >>,
         solution_steps |-> <<
           "WITH campaign_metrics AS (SELECT campaign_id, SUM(cost_micros) / 1000000.0 AS total_cost_usd, SUM(conversions) AS total_conversions FROM ad_performance_daily GROUP BY campaign_id)",
           "WITH campaign_metrics AS (...) SELECT c.campaign_name, cm.total_cost_usd, cm.total_conversions FROM campaign_metrics cm JOIN campaigns c ON cm.campaign_id = c.campaign_id",
           "WITH campaign_metrics AS (SELECT campaign_id, SUM(cost_micros) / 1000000.0 AS total_cost_usd, SUM(conversions) AS total_conversions FROM ad_performance_daily GROUP BY campaign_id) SELECT c.campaign_name, cm.total_cost_usd, cm.total_conversions, CASE WHEN cm.total_conversions > 0 THEN ROUND(cm.total_cost_usd / cm.total_conversions, 2) ELSE NULL END AS cpa FROM campaign_metrics cm JOIN campaigns c ON cm.campaign_id = c.campaign_id ORDER BY cpa;" >>,
         answer |->
           "WITH campaign_metrics AS (SELECT campaign_id, SUM(cost_micros) / 1000000.0 AS total_cost_usd, SUM(conversions) AS total_conversions FROM ad_performance_daily GROUP BY campaign_id) SELECT c.campaign_name, cm.total_cost_usd, cm.total_conversions, CASE WHEN cm.total_conversions > 0 THEN ROUND(cm.total_cost_usd / cm.total_conversions, 2) ELSE NULL END AS cpa FROM campaign_metrics cm JOIN campaigns c ON cm.campaign_id = c.campaign_id ORDER BY cpa;",
         follow_up |->
           "Add a second CTE for search term waste (terms with 0 conversions)"] >>] >>]

(***************************************************************************)
(* Lookups over the curriculum                                             *)
(***************************************************************************)

\* the (lesson, phase) pairs in the order the two nested loops visit them
RECURSIVE FlattenFrom(_)
FlattenFrom(p) ==
  IF p > Len(CURRICULUM.phases) THEN << >>
  ELSE LET phase == CURRICULUM.phases[p]
       IN  [i \in 1..Len(phase.lessons) |-> << phase.lessons[i], phase >>]
           \o FlattenFrom(p + 1)

LessonPairs == FlattenFrom(1)

\* the list all_lessons built inside get_next_lesson_id
all_lessons == [i \in 1..Len(LessonPairs) |-> LessonPairs[i][1].id]

LessonIds == {all_lessons[i] : i \in 1..Len(all_lessons)}

\* list.index on all_lessons for every id it holds: the first position
FirstIndex ==
  [id \in LessonIds |->
     CHOOSE i \in 1..Len(all_lessons) :
       /\ all_lessons[i] = id
       /\ \A j \in 1..(i - 1) : all_lessons[j] # id]

\* list.index (0 stands for ValueError)
IndexOf(lesson_id) ==
  IF lesson_id \in LessonIds THEN FirstIndex[lesson_id] ELSE 0

\* get_lesson_by_id: << >> stands for (None, None), else <<lesson, phase>>
get_lesson_by_id(lesson_id) ==
  IF IndexOf(lesson_id) = 0 THEN << >> ELSE LessonPairs[IndexOf(lesson_id)]

\* get_next_lesson_id with the index advanced by two (fault variant)
get_next_lesson_id_off_by_one(current_id) ==
  LET idx == IndexOf(current_id) IN
  IF idx # 0 /\ idx + 2 <= Len(all_lessons) THEN all_lessons[idx + 2] ELSE ""

\* get_next_lesson_id that names a fifth phase after the last lesson (fault
\* variant)
get_next_lesson_id_past_the_end(current_id) ==
  LET idx == IndexOf(current_id) IN
  IF idx = 0 THEN ""
  ELSE IF idx + 1 <= Len(all_lessons) THEN all_lessons[idx + 1]
  ELSE "5.1"

\* get_next_lesson_id: "" stands for None
get_next_lesson_id(current_id) ==
  LET idx == IndexOf(current_id) IN
  IF idx # 0 /\ idx + 1 <= Len(all_lessons) THEN all_lessons[idx + 1] ELSE ""

\* get_total_lessons
get_total_lessons ==
  LET RECURSIVE Sum(_)
      Sum(p) == IF p > Len(CURRICULUM.phases) THEN 0
                ELSE Len(CURRICULUM.phases[p].lessons) + Sum(p + 1)
  IN  Sum(1)

(***************************************************************************)
(* Python string operations used by handle_command and normalize_sql       *)
(***************************************************************************)

Ch(s, i) == SubSeq(s, i, i)

\* the whitespace characters an input line can carry
Whitespace == {" ", "\t"}

UpperLetters == "ABCDEFGHIJKLMNOPQRSTUVWXYZ"
LowerLetters == "abcdefghijklmnopqrstuvwxyz"

LowerChar(c) ==
  IF \E i \in 1..26 : Ch(UpperLetters, i) = c
  THEN Ch(LowerLetters, CHOOSE i \in 1..26 : Ch(UpperLetters, i) = c)
  ELSE c

\* str.lower()
RECURSIVE lower(_)
lower(s) ==
  IF Len(s) = 0 THEN ""
  ELSE IF Len(s) = 1 THEN LowerChar(s)
  ELSE LET m == Len(s) \div 2
       IN  lower(SubSeq(s, 1, m)) \o lower(SubSeq(s, m + 1, Len(s)))

SetMin(S) == CHOOSE x \in S : \A y \in S : x <= y
SetMax(S) == CHOOSE x \in S : \A y \in S : x >= y

\* str.strip(): drop leading and trailing whitespace
strip(s) ==
  LET keep == {i \in 1..Len(s) : Ch(s, i) \notin Whitespace} IN
  IF keep = {} THEN "" ELSE SubSeq(s, SetMin(keep), SetMax(keep))

\* str.rstrip(';'): drop every trailing ';'
rstrip_semicolon(s) ==
  LET keep == {i \in 1..Len(s) : Ch(s, i) # ";"} IN
  IF keep = {} THEN "" ELSE SubSeq(s, 1, SetMax(keep))

\* re.sub(r'\s+', ' ', s) on the positions lo..hi of s: the first character
\* of a whitespace run becomes one space, the rest of the run disappears
RECURSIVE CollapseRange(_, _, _)
CollapseRange(s, lo, hi) ==
  IF lo > hi THEN ""
  ELSE IF lo = hi THEN
    IF Ch(s, lo) \in Whitespace
    THEN (IF lo > 1 /\ Ch(s, lo - 1) \in Whitespace THEN "" ELSE " ")
    ELSE Ch(s, lo)
  ELSE LET m == (lo + hi) \div 2
       IN  CollapseRange(s, lo, m) \o CollapseRange(s, m + 1, hi)

re_sub_whitespace(s) == CollapseRange(s, 1, Len(s))

\* SQLCoach.normalize_sql
normalize_sql(sql) == re_sub_whitespace(rstrip_semicolon(strip(lower(sql))))

\* str.startswith
startswith(s, prefix) ==
  Len(s) >= Len(prefix) /\ SubSeq(s, 1, Len(prefix)) = prefix

\* the `in' operator on strings
contains(s, kw) ==
  \E i \in 1..(Len(s) - Len(kw) + 1) : SubSeq(s, i, i + Len(kw) - 1) = kw

\* s[n:]
slice_from(s, n) == IF n >= Len(s) THEN "" ELSE SubSeq(s, n + 1, Len(s))

(***************************************************************************)
(* Bounds                                                                  *)
(***************************************************************************)

\* input lines handled in one run of the program
MaxCommands == 4

\* input lines handled in a run that skips through the whole curriculum
MaxSkips == 15

\* length of the texts given to normalize_sql on its own
MaxTextLen == 3

(***************************************************************************)
(* State                                                                   *)
(***************************************************************************)

VARIABLES
  progress,      \* SQLCoach.progress: the dict returned by load_progress
  persisted,     \* content of PROGRESS_PATH: << >> (no file) or <<record>>
  current_hint,  \* SQLCoach.current_hint
  current_step,  \* SQLCoach.current_step
  last_query,    \* SQLCoach.last_query: << >> (None) or <<sql>>
  pc,            \* position of SQLCoach.run: "start", "loop" or "done"
  out,           \* what the last step printed, as a sequence of payloads
  cmd,           \* the line read by input() as handle_command dispatches
                 \* it: the branch taken and the text it works on
  ncmd,          \* number of input lines handled so far
  text,          \* argument of normalize_sql when it is applied on its own
  normalized     \* results of the successive normalize_sql calls on text

vars == << progress, persisted, current_hint, current_step, last_query,
           pc, out, cmd, ncmd, text, normalized >>

\* the variables of the stand-alone application of normalize_sql
pure == << text, normalized >>

\* the variables of the session
session == << progress, persisted, current_hint, current_step, last_query,
              pc, out, cmd, ncmd >>

\* one printed box or message
Payload(kind, pos, total, body, lines) ==
  [kind |-> kind, pos |-> pos, total |-> total, text |-> body, lines |-> lines]

Msg(kind, body) == Payload(kind, 0, 0, body, << >>)

HasKind(o, kind) == \E i \in 1..Len(o) : o[i].kind = kind

Range(s) == {s[i] : i \in 1..Len(s)}

(***************************************************************************)
(* Progress file                                                           *)
(***************************************************************************)

\* datetime.now().isoformat() when a fresh record is created
Now == {"2026-01-05T09:00:00"}

\* records that an earlier run (or an edit of the file) left in PROGRESS_PATH
StoredRecords ==
  { [current_lesson |-> "2.2", completed_lessons |-> << "1.1", "1.2" >>,
     hint_counts |-> << >>, started_at |-> "2025-11-20T18:30:00"],
    [current_lesson |-> "4.3", completed_lessons |-> << >>,
     hint_counts |-> << >>, started_at |-> "2025-11-20T18:30:00"],
    [current_lesson |-> "9.9", completed_lessons |-> << "1.1" >>,
     hint_counts |-> << >>, started_at |-> "2025-11-20T18:30:00"] }

\* load_progress whose default points at the last lesson (fault variant)
load_progress_default_last(file) ==
  IF file # << >> THEN { file[1] }
  ELSE { [current_lesson |-> all_lessons[Len(all_lessons)],
          completed_lessons |-> << >>,
          hint_counts |-> << >>, started_at |-> t] : t \in Now }

\* load_progress: the set of dicts it can return for a file content
load_progress(file) ==
  IF file # << >> THEN { file[1] }
  ELSE { [current_lesson |-> "1.1", completed_lessons |-> << >>,
          hint_counts |-> << >>, started_at |-> t] : t \in Now }

\* json.dump of a progress dict: the members in insertion order, every
\* value with its JSON type (a list becomes an array of strings, the empty
\* dict of hint counts an object without members)
json_dump(p) ==
  << << "current_lesson", [t |-> "string", v |-> p.current_lesson] >>,
     << "completed_lessons",
        [t |-> "array",
         v |-> [i \in 1..Len(p.completed_lessons) |->
                  [t |-> "string", v |-> p.completed_lessons[i]]]] >>,
     << "hint_counts", [t |-> "object", v |-> p.hint_counts] >>,
     << "started_at", [t |-> "string", v |-> p.started_at] >> >>

\* the Python value of a JSON value
json_value(j) ==
  IF j.t = "array" THEN [i \in 1..Len(j.v) |-> j.v[i].v] ELSE j.v

\* json.load of a document: a dict with the value of the last member of
\* each name
json_load(doc) ==
  [k \in {doc[i][1] : i \in 1..Len(doc)} |->
     LET last == CHOOSE i \in 1..Len(doc) :
                   /\ doc[i][1] = k
                   /\ \A j \in (i + 1)..Len(doc) : doc[j][1] # k
     IN  json_value(doc[last][2])]

\* save_progress that stamps the time of the save (fault variant)
save_progress_restamps(p) ==
  << [json_load(json_dump(p)) EXCEPT !.started_at = "2026-02-01T12:00:00"] >>

\* save_progress: the file after the dump; the file is held as the value
\* that json.load returns for its text
save_progress(p) == << json_load(json_dump(p)) >>

(***************************************************************************)
(* Query executor                                                          *)
(***************************************************************************)

\* execute_sql returns (columns, rows, None) or (None, None, message); the
\* database is outside the model, so either outcome is possible
ExecOutcomes == {"ok", "error"}

\* explain_execution_order: the clauses in the order the steps are appended
ClauseTable ==
  << << "with ", "WITH (CTE)" >>, << "from ", "FROM" >>,
     << "join ", "JOIN" >>, << "where ", "WHERE" >>,
     << "group by", "GROUP BY" >>, << "having ", "HAVING" >>,
     << "select ", "SELECT" >>, << "distinct", "DISTINCT" >>,
     << "order by", "ORDER BY" >>, << "limit ", "LIMIT" >> >>

RECURSIVE ExplainFrom(_, _)
ExplainFrom(sql_lower, k) ==
  IF k > Len(ClauseTable) THEN << >>
  ELSE (IF contains(sql_lower, ClauseTable[k][1])
        THEN << ClauseTable[k][2] >> ELSE << >>)
       \o ExplainFrom(sql_lower, k + 1)

explain_execution_order(sql) == ExplainFrom(lower(sql), 1)

(***************************************************************************)
(* Input lines and the dispatch of handle_command                          *)
(***************************************************************************)

Answer(lesson_id) == get_lesson_by_id(lesson_id)[1].answer

\* the lines the learner types; input() returns them without the newline
CommandLines ==
  { "hint", "stuck", "help me", "next", "answer", "solution", "explain",
    "schema", "tables", "skip", "progress", "reset", "help", "?", "clear",
    "cls", "quit", "exit", "q", "", "   ", "  HINT ", "Skip", "run", "lesson",
    "drop table campaigns" }

\* lessons the learner jumps to: the first and the last lesson, the last
\* lesson of a phase, and lessons with fewer and with more hints and steps
GotoLessons == {"1.1", "1.4", "2.3", "3.3", "4.2", "4.3"}

LessonLines ==
  {"lesson " \o id : id \in GotoLessons} \cup {"lesson 9.9", "LESSON  1.1 "}

\* lessons whose answer the learner submits, as `run <answer>' and bare
QueryLessons == {"1.1", "4.2"}

QueryLines ==
  {"run " \o Answer(id) : id \in QueryLessons}
    \cup {Answer(id) : id \in QueryLessons}
    \cup { "select 1", "run selec * from campaigns",
           "select * from campaigns where(1=1)",
           "RUN  select CAMPAIGN_NAME,\tbidding_strategy   from campaigns",
           "run SELECT campaign_name, bidding_strategy FROM campaigns ;",
           "run SELECT campaign_name, bidding_strategy FROM campaigns;;" }

InputLines == CommandLines \cup LessonLines \cup QueryLines

\* the if-chain without the keyword test at its end (fault variant)
branch_of_without_keywords(line) ==
  LET stripped == strip(line)
      cmd_lower == lower(stripped)
  IN  IF stripped = "" THEN "blank"
      ELSE IF startswith(cmd_lower, "run ") THEN "run"
      ELSE IF cmd_lower \in {"hint", "stuck", "help me"} THEN "hint"
      ELSE IF cmd_lower = "next" THEN "next"
      ELSE IF cmd_lower \in {"answer", "solution"} THEN "answer"
      ELSE IF cmd_lower = "explain" THEN "explain"
      ELSE IF cmd_lower = "schema" THEN "schema"
      ELSE IF cmd_lower = "tables" THEN "tables"
      ELSE IF cmd_lower = "skip" THEN "skip"
      ELSE IF startswith(cmd_lower, "lesson ") THEN "lesson"
      ELSE IF cmd_lower = "progress" THEN "progress"
      ELSE IF cmd_lower = "reset" THEN "reset"
      ELSE IF cmd_lower \in {"help", "?"} THEN "help"
      ELSE IF cmd_lower \in {"clear", "cls"} THEN "clear"
      ELSE IF cmd_lower \in {"quit", "exit", "q"} THEN "quit"
      ELSE "unknown"

\* the branch of the if-chain of handle_command that takes the line
branch_of(line) ==
  LET stripped == strip(line)
      cmd_lower == lower(stripped)
  IN  IF stripped = "" THEN "blank"
      ELSE IF startswith(cmd_lower, "run ") THEN "run"
      ELSE IF cmd_lower \in {"hint", "stuck", "help me"} THEN "hint"
      ELSE IF cmd_lower = "next" THEN "next"
      ELSE IF cmd_lower \in {"answer", "solution"} THEN "answer"
      ELSE IF cmd_lower = "explain" THEN "explain"
      ELSE IF cmd_lower = "schema" THEN "schema"
      ELSE IF cmd_lower = "tables" THEN "tables"
      ELSE IF cmd_lower = "skip" THEN "skip"
      ELSE IF startswith(cmd_lower, "lesson ") THEN "lesson"
      ELSE IF cmd_lower = "progress" THEN "progress"
      ELSE IF cmd_lower = "reset" THEN "reset"
      ELSE IF cmd_lower \in {"help", "?"} THEN "help"
      ELSE IF cmd_lower \in {"clear", "cls"} THEN "clear"
      ELSE IF cmd_lower \in {"quit", "exit", "q"} THEN "quit"
      ELSE IF \E kw \in {"select", "with", "insert", "update", "delete"} :
                contains(cmd_lower, kw)
           THEN "sql"
      ELSE "unknown"

\* the text the branch works on: cmd[4:].strip() for run, cmd[7:].strip()
\* for lesson, cmd for a bare query; the other branches use no text
argument_of(line) ==
  LET stripped == strip(line) IN
  CASE branch_of(line) = "run" -> strip(slice_from(stripped, 4))
    [] branch_of(line) = "lesson" -> strip(slice_from(stripped, 7))
    [] branch_of(line) = "sql" -> stripped
    [] OTHER -> ""

\* dispatch of every input line, evaluated once
Parsed ==
  [line \in InputLines |->
     [branch |-> branch_of(line), arg |-> argument_of(line)]]

\* the texts that reach execute_sql, and the lesson answers
SqlTexts ==
  {Parsed[line].arg : line \in {l \in InputLines :
                                  Parsed[l].branch \in {"run", "sql"}}}
    \cup {Answer(id) : id \in LessonIds}

\* normalize_sql and explain_execution_order of every such text, evaluated
\* once
Normalized == [s \in SqlTexts |-> normalize_sql(s)]

Explained == [s \in SqlTexts |-> explain_execution_order(s)]

Branches ==
  { "blank", "run", "hint", "next", "answer", "explain", "schema", "tables",
    "skip", "lesson", "progress", "reset", "help", "clear", "quit", "sql",
    "unknown" }

\* the input lines that each branch takes
LinesOf ==
  [b \in Branches |-> {line \in InputLines : Parsed[line].branch = b}]

\* no line has been read yet
NoCommand == [branch |-> "", arg |-> ""]

\* the loop is blocked in input() and reads the line
Accept(line) ==
  /\ pc = "loop"
  /\ ncmd < MaxCommands
  /\ cmd' = Parsed[line]
  /\ ncmd' = ncmd + 1

\* handle_command returned True: the loop asks for the next line
Handled ==
  /\ pc' = "loop"
  /\ UNCHANGED pure

(***************************************************************************)
(* SQLCoach                                                                *)
(***************************************************************************)

Banner == Msg("banner", "SQL COACH")

\* show_current_lesson without the reset of the two counters (fault variant)
show_current_lesson_keeps_cursors(p, shown) ==
  LET found == get_lesson_by_id(p.current_lesson) IN
  /\ UNCHANGED << current_hint, current_step >>
  /\ out' = shown \o
       (IF found = << >> THEN << Msg("error", "Lesson not found!") >>
        ELSE << Payload("lesson", Len(p.completed_lessons), get_total_lessons,
                        found[1].id, << found[2].title, found[1].title >>) >>)

\* show_current_lesson that resets the hint counter only (fault variant)
show_current_lesson_resets_hint_only(p, shown) ==
  LET found == get_lesson_by_id(p.current_lesson) IN
  IF found = << >>
  THEN /\ out' = shown \o << Msg("error", "Lesson not found!") >>
       /\ UNCHANGED << current_hint, current_step >>
  ELSE /\ current_hint' = 0
       /\ UNCHANGED current_step
       /\ out' = shown \o
            << Payload("lesson", Len(p.completed_lessons), get_total_lessons,
                       found[1].id, << found[2].title, found[1].title >>) >>

\* SQLCoach.show_current_lesson for the progress p, printing after `shown'
show_current_lesson(p, shown) ==
  LET found == get_lesson_by_id(p.current_lesson) IN
  IF found = << >>
  THEN /\ out' = shown \o << Msg("error", "Lesson not found!") >>
       /\ UNCHANGED << current_hint, current_step >>
  ELSE /\ current_hint' = 0
       /\ current_step' = 0
       /\ out' = shown \o
            << Payload("lesson", Len(p.completed_lessons), get_total_lessons,
                       found[1].id, << found[2].title, found[1].title >>) >>

\* append without the membership test (fault variant)
mark_completed_always(completed, lesson_id) == Append(completed, lesson_id)

\* append unless the id is the last entry of the list (fault variant)
mark_completed_checks_last(completed, lesson_id) ==
  IF completed # << >> /\ completed[Len(completed)] = lesson_id
  THEN completed
  ELSE Append(completed, lesson_id)

\* the completed list after `if id not in completed: completed.append(id)'
mark_completed(completed, lesson_id) ==
  IF lesson_id \in Range(completed) THEN completed
  ELSE Append(completed, lesson_id)

\* prints that compare the text with the answer before looking at the error
\* (fault variant)
query_output_match_before_error(sql, outcome, found, check_answer) ==
  (IF outcome = "error" THEN << Msg("sql_error", "SQL Error") >>
   ELSE << Msg("table", "Query executed") >>) \o
  (IF /\ check_answer
      /\ found # << >>
      /\ Normalized[sql] = Normalized[found[1].answer]
   THEN << Msg("match", found[1].follow_up) >>
   ELSE << >>)

\* the prints after a query: the error box, or the table followed by the
\* success box when check_answer is set and the normalized texts are equal
query_output(sql, outcome, found, check_answer) ==
  IF outcome = "error" THEN << Msg("sql_error", "SQL Error") >>
  ELSE << Msg("table", "Query executed") >> \o
       (IF /\ check_answer
           /\ found # << >>
           /\ Normalized[sql] = Normalized[found[1].answer]
        THEN << Msg("match", found[1].follow_up) >>
        ELSE << >>)

\* empty line: handle_command returns before looking at anything
cmd_blank ==
  \E line \in LinesOf["blank"] :
    /\ Accept(line)
    /\ out' = << >>
    /\ Handled
    /\ UNCHANGED << progress, persisted, current_hint, current_step,
                    last_query >>

\* run <sql> that remembers the query only when it executed (fault variant)
cmd_run_remembers_on_success ==
  \E line \in LinesOf["run"], outcome \in ExecOutcomes :
    /\ Accept(line)
    /\ LET sql == Parsed[line].arg
           found == get_lesson_by_id(progress.current_lesson)
       IN  /\ last_query' = IF outcome = "error" THEN last_query ELSE << sql >>
           /\ out' = query_output(sql, outcome, found, TRUE)
    /\ Handled
    /\ UNCHANGED << progress, persisted, current_hint, current_step >>

\* run <sql>
cmd_run ==
  \E line \in LinesOf["run"], outcome \in ExecOutcomes :
    /\ Accept(line)
    /\ LET sql == Parsed[line].arg
           found == get_lesson_by_id(progress.current_lesson)
       IN  /\ last_query' = << sql >>
           /\ out' = query_output(sql, outcome, found, TRUE)
    /\ Handled
    /\ UNCHANGED << progress, persisted, current_hint, current_step >>

\* hint that shows the hint and leaves the counter alone (fault variant)
cmd_hint_no_increment ==
  \E line \in LinesOf["hint"] :
    /\ Accept(line)
    /\ LET found == get_lesson_by_id(progress.current_lesson) IN
       IF found = << >>
       THEN out' = << >>
       ELSE LET hints == found[1].hints IN
            IF current_hint < Len(hints)
            THEN out' = << Payload("hint", current_hint + 1, Len(hints),
                                   hints[current_hint + 1], << >>) >>
            ELSE out' = << Msg("no_more_hints",
                      "No more hints! Type 'answer' to see the solution.") >>
    /\ Handled
    /\ UNCHANGED << progress, persisted, current_hint, current_step,
                    last_query >>

\* hint | stuck | help me
cmd_hint ==
  \E line \in LinesOf["hint"] :
    /\ Accept(line)
    /\ LET found == get_lesson_by_id(progress.current_lesson) IN
       IF found = << >>
       THEN /\ out' = << >>
            /\ UNCHANGED current_hint
       ELSE LET hints == found[1].hints IN
            IF current_hint < Len(hints)
            THEN /\ out' = << Payload("hint", current_hint + 1, Len(hints),
                                      hints[current_hint + 1], << >>) >>
                 /\ current_hint' = current_hint + 1
            ELSE /\ out' = << Msg("no_more_hints",
                       "No more hints! Type 'answer' to see the solution.") >>
                 /\ UNCHANGED current_hint
    /\ Handled
    /\ UNCHANGED << progress, persisted, current_step, last_query >>

\* next that indexes the steps one too low (fault variant)
cmd_next_index_too_low ==
  \E line \in LinesOf["next"] :
    /\ Accept(line)
    /\ LET found == get_lesson_by_id(progress.current_lesson) IN
       IF found = << >>
       THEN /\ out' = << >>
            /\ UNCHANGED current_step
       ELSE LET steps == found[1].solution_steps IN
            IF current_step < Len(steps)
            THEN /\ out' = << Payload("step", current_step + 1, Len(steps),
                                      steps[IF current_step = 0 THEN 1
                                            ELSE current_step], << >>) >>
                 /\ current_step' = current_step + 1
            ELSE /\ out' = << Msg("no_more_steps",
                                  "No more steps! Here's the full solution:"),
                              Msg("answer", found[1].answer) >>
                 /\ UNCHANGED current_step
    /\ Handled
    /\ UNCHANGED << progress, persisted, current_hint, last_query >>

\* next that only reports the exhaustion, as hint does (fault variant)
cmd_next_exhaustion_without_answer ==
  \E line \in LinesOf["next"] :
    /\ Accept(line)
    /\ LET found == get_lesson_by_id(progress.current_lesson) IN
       IF found = << >>
       THEN /\ out' = << >>
            /\ UNCHANGED current_step
       ELSE LET steps == found[1].solution_steps IN
            IF current_step < Len(steps)
            THEN /\ out' = << Payload("step", current_step + 1, Len(steps),
                                      steps[current_step + 1], << >>) >>
                 /\ current_step' = current_step + 1
            ELSE /\ out' = << Msg("no_more_steps",
                                  "No more steps! Here's the full solution:") >>
                 /\ UNCHANGED current_step
    /\ Handled
    /\ UNCHANGED << progress, persisted, current_hint, last_query >>

\* next that writes the progress file after each step (fault variant)
cmd_next_saving ==
  \E line \in LinesOf["next"] :
    /\ Accept(line)
    /\ LET found == get_lesson_by_id(progress.current_lesson) IN
       IF found = << >>
       THEN /\ out' = << >>
            /\ UNCHANGED current_step
       ELSE LET steps == found[1].solution_steps IN
            IF current_step < Len(steps)
            THEN /\ out' = << Payload("step", current_step + 1, Len(steps),
                                      steps[current_step + 1], << >>) >>
                 /\ current_step' = current_step + 1
            ELSE /\ out' = << Msg("no_more_steps",
                                  "No more steps! Here's the full solution:"),
                              Msg("answer", found[1].answer) >>
                 /\ UNCHANGED current_step
    /\ persisted' = save_progress(progress)
    /\ Handled
    /\ UNCHANGED << progress, current_hint, last_query >>

\* next
cmd_next ==
  \E line \in LinesOf["next"] :
    /\ Accept(line)
    /\ LET found == get_lesson_by_id(progress.current_lesson) IN
       IF found = << >>
       THEN /\ out' = << >>
            /\ UNCHANGED current_step
       ELSE LET steps == found[1].solution_steps IN
            IF current_step < Len(steps)
            THEN /\ out' = << Payload("step", current_step + 1, Len(steps),
                                      steps[current_step + 1], << >>) >>
                 /\ current_step' = current_step + 1
            ELSE /\ out' = << Msg("no_more_steps",
                                  "No more steps! Here's the full solution:"),
                              Msg("answer", found[1].answer) >>
                 /\ UNCHANGED current_step
    /\ Handled
    /\ UNCHANGED << progress, persisted, current_hint, last_query >>

\* answer without the `if lesson' test: subscripting None raises TypeError,
\* which run() does not catch (fault variant)
cmd_answer_unguarded ==
  \E line \in LinesOf["answer"] :
    /\ Accept(line)
    /\ LET found == get_lesson_by_id(progress.current_lesson) IN
       IF found = << >>
       THEN /\ out' = << Msg("traceback", "TypeError") >>
            /\ pc' = "crashed"
       ELSE /\ out' = << Msg("answer", found[1].answer) >>
            /\ pc' = "loop"
    /\ UNCHANGED pure
    /\ UNCHANGED << progress, persisted, current_hint, current_step,
                    last_query >>

\* answer that moves the step counter to the end (fault variant)
cmd_answer_exhausts_steps ==
  \E line \in LinesOf["answer"] :
    /\ Accept(line)
    /\ LET found == get_lesson_by_id(progress.current_lesson) IN
       IF found = << >>
       THEN /\ out' = << >>
            /\ UNCHANGED current_step
       ELSE /\ out' = << Msg("answer", found[1].answer) >>
            /\ current_step' = Len(found[1].solution_steps)
    /\ Handled
    /\ UNCHANGED << progress, persisted, current_hint, last_query >>

\* answer | solution
cmd_answer ==
  \E line \in LinesOf["answer"] :
    /\ Accept(line)
    /\ LET found == get_lesson_by_id(progress.current_lesson) IN
       out' = IF found = << >> THEN << >>
              ELSE << Msg("answer", found[1].answer) >>
    /\ Handled
    /\ UNCHANGED << progress, persisted, current_hint, current_step,
                    last_query >>

\* explain
cmd_explain ==
  \E line \in LinesOf["explain"] :
    /\ Accept(line)
    /\ out' = IF last_query # << >> /\ last_query[1] # ""
              THEN << Payload("explain", 0, 0, last_query[1],
                              Explained[last_query[1]]) >>
              ELSE << Msg("explain_prompt",
                     "Run a query first, then type 'explain' to see execution order.") >>
    /\ Handled
    /\ UNCHANGED << progress, persisted, current_hint, current_step,
                    last_query >>

\* schema
cmd_schema ==
  \E line \in LinesOf["schema"] :
    /\ Accept(line)
    /\ out' = << Msg("schema", "DATABASE SCHEMA") >>
    /\ Handled
    /\ UNCHANGED << progress, persisted, current_hint, current_step,
                    last_query >>

\* tables
cmd_tables ==
  \E line \in LinesOf["tables"] :
    /\ Accept(line)
    /\ out' = << Msg("tables", "Available Tables:") >>
    /\ Handled
    /\ UNCHANGED << progress, persisted, current_hint, current_step,
                    last_query >>

\* skip that only congratulates on the final lesson (fault variant)
skip_lesson_unmarked_at_the_end ==
  LET found == get_lesson_by_id(progress.current_lesson) IN
  IF found = << >>
  THEN /\ out' = << >>
       /\ UNCHANGED << progress, persisted, current_hint, current_step >>
  ELSE LET completed == mark_completed(progress.completed_lessons,
                                       found[1].id)
           next_id == get_next_lesson_id(found[1].id)
       IN  IF next_id # ""
           THEN LET p == [progress EXCEPT
                            !.completed_lessons = completed,
                            !.current_lesson = next_id]
                IN  /\ progress' = p
                    /\ persisted' = save_progress(p)
                    /\ show_current_lesson(p, << Banner >>)
           ELSE /\ out' = << Msg("success",
                     "Congratulations! You've completed all lessons!") >>
                /\ UNCHANGED << progress, persisted, current_hint,
                                current_step >>

\* the body of the skip branch
skip_lesson ==
  LET found == get_lesson_by_id(progress.current_lesson) IN
  IF found = << >>
  THEN /\ out' = << >>
       /\ UNCHANGED << progress, persisted, current_hint, current_step >>
  ELSE LET completed == mark_completed(progress.completed_lessons,
                                       found[1].id)
           next_id == get_next_lesson_id(found[1].id)
       IN  IF next_id # ""
           THEN LET p == [progress EXCEPT
                            !.completed_lessons = completed,
                            !.current_lesson = next_id]
                IN  /\ progress' = p
                    /\ persisted' = save_progress(p)
                    /\ show_current_lesson(p, << Banner >>)
           ELSE /\ progress' =
                     [progress EXCEPT !.completed_lessons = completed]
                /\ out' = << Msg("success",
                     "Congratulations! You've completed all lessons!") >>
                /\ UNCHANGED << persisted, current_hint, current_step >>

\* skip
cmd_skip ==
  \E line \in LinesOf["skip"] :
    /\ Accept(line)
    /\ skip_lesson
    /\ Handled
    /\ UNCHANGED last_query

\* lesson <id> that leaves the file alone (fault variant)
goto_lesson_without_save(line) ==
  LET lesson_id == Parsed[line].arg
      test_lesson == get_lesson_by_id(lesson_id)
  IN  IF test_lesson # << >>
      THEN LET p == [progress EXCEPT !.current_lesson = lesson_id]
           IN  /\ progress' = p
               /\ UNCHANGED persisted
               /\ show_current_lesson(p, << Banner >>)
      ELSE /\ out' = << Msg("error", "Lesson '" \o lesson_id
                 \o "' not found. Use format like '1.2' or '3.1'") >>
           /\ UNCHANGED << progress, persisted, current_hint, current_step >>

\* lesson <id> that also marks the lesson left as completed (fault variant)
goto_lesson_marks_completed(line) ==
  LET lesson_id == Parsed[line].arg
      test_lesson == get_lesson_by_id(lesson_id)
  IN  IF test_lesson # << >>
      THEN LET p == [progress EXCEPT
                       !.completed_lessons =
                          mark_completed(@, progress.current_lesson),
                       !.current_lesson = lesson_id]
           IN  /\ progress' = p
               /\ persisted' = save_progress(p)
               /\ show_current_lesson(p, << Banner >>)
      ELSE /\ out' = << Msg("error", "Lesson '" \o lesson_id
                 \o "' not found. Use format like '1.2' or '3.1'") >>
           /\ UNCHANGED << progress, persisted, current_hint, current_step >>

\* lesson <id> that assigns the id before looking it up (fault variant)
goto_lesson_unchecked(line) ==
  LET lesson_id == Parsed[line].arg
      p == [progress EXCEPT !.current_lesson = lesson_id]
  IN  /\ progress' = p
      /\ persisted' = save_progress(p)
      /\ show_current_lesson(p, << Banner >>)

\* lesson <id> for one input line
goto_lesson(line) ==
  LET lesson_id == Parsed[line].arg
      test_lesson == get_lesson_by_id(lesson_id)
  IN  IF test_lesson # << >>
      THEN LET p == [progress EXCEPT !.current_lesson = lesson_id]
           IN  /\ progress' = p
               /\ persisted' = save_progress(p)
               /\ show_current_lesson(p, << Banner >>)
      ELSE /\ out' = << Msg("error", "Lesson '" \o lesson_id
                 \o "' not found. Use format like '1.2' or '3.1'") >>
           /\ UNCHANGED << progress, persisted, current_hint, current_step >>

\* lesson <id> that forgets the last query (fault variant)
cmd_lesson_forgets_query ==
  \E line \in LinesOf["lesson"] :
    /\ Accept(line)
    /\ goto_lesson(line)
    /\ Handled
    /\ last_query' = << >>

\* lesson <id>
cmd_lesson ==
  \E line \in LinesOf["lesson"] :
    /\ Accept(line)
    /\ goto_lesson(line)
    /\ Handled
    /\ UNCHANGED last_query

\* progress
cmd_progress ==
  \E line \in LinesOf["progress"] :
    /\ Accept(line)
    /\ out' = << Payload("progress", Len(progress.completed_lessons),
                         get_total_lessons, progress.current_lesson,
                         progress.completed_lessons) >>
    /\ Handled
    /\ UNCHANGED << progress, persisted, current_hint, current_step,
                    last_query >>

\* reset that also empties the completed list (fault variant)
cmd_reset_empties_completed ==
  \E line \in LinesOf["reset"] :
    /\ Accept(line)
    /\ current_hint' = 0
    /\ current_step' = 0
    /\ progress' = [progress EXCEPT !.completed_lessons = << >>]
    /\ out' = << Msg("reset",
         "Lesson progress reset. Hints and steps start from beginning.") >>
    /\ Handled
    /\ UNCHANGED << persisted, last_query >>

\* reset that forgets the step counter (fault variant)
cmd_reset_hint_only ==
  \E line \in LinesOf["reset"] :
    /\ Accept(line)
    /\ current_hint' = 0
    /\ out' = << Msg("reset",
         "Lesson progress reset. Hints and steps start from beginning.") >>
    /\ Handled
    /\ UNCHANGED << progress, persisted, current_step, last_query >>

\* reset
cmd_reset ==
  \E line \in LinesOf["reset"] :
    /\ Accept(line)
    /\ current_hint' = 0
    /\ current_step' = 0
    /\ out' = << Msg("reset",
         "Lesson progress reset. Hints and steps start from beginning.") >>
    /\ Handled
    /\ UNCHANGED << progress, persisted, last_query >>

\* help | ?
cmd_help ==
  \E line \in LinesOf["help"] :
    /\ Accept(line)
    /\ out' = << Msg("help", "COMMANDS") >>
    /\ Handled
    /\ UNCHANGED << progress, persisted, current_hint, current_step,
                    last_query >>

\* clear that prints the banner only (fault variant)
cmd_clear_banner_only ==
  \E line \in LinesOf["clear"] :
    /\ Accept(line)
    /\ out' = << Banner >>
    /\ Handled
    /\ UNCHANGED << progress, persisted, current_hint, current_step,
                    last_query >>

\* clear | cls
cmd_clear ==
  \E line \in LinesOf["clear"] :
    /\ Accept(line)
    /\ show_current_lesson(progress, << Banner >>)
    /\ Handled
    /\ UNCHANGED << progress, persisted, last_query >>

\* quit that leaves the file as it is (fault variant)
cmd_quit_without_save ==
  \E line \in LinesOf["quit"] :
    /\ Accept(line)
    /\ out' = << Msg("saved", "Progress saved! See you next time.") >>
    /\ pc' = "done"
    /\ UNCHANGED << progress, persisted, current_hint, current_step,
                    last_query >>
    /\ UNCHANGED pure

\* quit | exit | q: handle_command returns False and the loop breaks
cmd_quit ==
  \E line \in LinesOf["quit"] :
    /\ Accept(line)
    /\ persisted' = save_progress(progress)
    /\ out' = << Msg("saved", "Progress saved! See you next time.") >>
    /\ pc' = "done"
    /\ UNCHANGED << progress, current_hint, current_step, last_query >>
    /\ UNCHANGED pure

\* bare query whose error ends the loop (fault variant)
cmd_sql_error_ends_loop ==
  \E line \in LinesOf["sql"], outcome \in ExecOutcomes :
    /\ Accept(line)
    /\ LET sql == Parsed[line].arg
           found == get_lesson_by_id(progress.current_lesson)
       IN  /\ last_query' = << sql >>
           /\ out' = query_output(sql, outcome, found, FALSE)
    /\ pc' = IF outcome = "error" THEN "done" ELSE "loop"
    /\ UNCHANGED pure
    /\ UNCHANGED << progress, persisted, current_hint, current_step >>

\* any other line holding a query keyword is executed as SQL
cmd_sql ==
  \E line \in LinesOf["sql"], outcome \in ExecOutcomes :
    /\ Accept(line)
    /\ LET sql == Parsed[line].arg
           found == get_lesson_by_id(progress.current_lesson)
       IN  /\ last_query' = << sql >>
           /\ out' = query_output(sql, outcome, found, FALSE)
    /\ Handled
    /\ UNCHANGED << progress, persisted, current_hint, current_step >>

\* anything else
cmd_unknown ==
  \E line \in LinesOf["unknown"] :
    /\ Accept(line)
    /\ out' = << Msg("unknown",
                     "Unknown command. Type 'help' for available commands.") >>
    /\ Handled
    /\ UNCHANGED << progress, persisted, current_hint, current_step,
                    last_query >>

\* SQLCoach.run up to the loop: banner, welcome text, current lesson
Startup ==
  /\ pc = "start"
  /\ show_current_lesson(progress, << Banner, Msg("welcome",
                                                   "Welcome to SQL Coach!") >>)
  /\ pc' = "loop"
  /\ UNCHANGED << progress, persisted, last_query, cmd, ncmd >>
  /\ UNCHANGED pure

\* Ctrl-C while the loop waits in input(): progress is saved, the loop breaks
KeyboardInterrupt ==
  /\ pc = "loop"
  /\ persisted' = save_progress(progress)
  /\ out' = << Msg("saved", "Progress saved! Goodbye.") >>
  /\ pc' = "done"
  /\ UNCHANGED << progress, current_hint, current_step, last_query, cmd,
                  ncmd >>
  /\ UNCHANGED pure

\* end of input handled like Ctrl-C, with a save (fault variant)
EndOfInput_saving ==
  /\ pc = "loop"
  /\ persisted' = save_progress(progress)
  /\ out' = << >>
  /\ pc' = "done"
  /\ UNCHANGED << progress, current_hint, current_step, last_query, cmd,
                  ncmd >>
  /\ UNCHANGED pure

\* end of input: the loop breaks and nothing is saved
EndOfInput ==
  /\ pc = "loop"
  /\ out' = << >>
  /\ pc' = "done"
  /\ UNCHANGED << progress, persisted, current_hint, current_step,
                  last_query, cmd, ncmd >>
  /\ UNCHANGED pure

\* the state after SQLCoach() was constructed
Init ==
  /\ persisted \in {<< >>} \cup {<< r >> : r \in StoredRecords}
  /\ progress \in load_progress(persisted)
  /\ current_hint = 0
  /\ current_step = 0
  /\ last_query = << >>
  /\ pc = "start"
  /\ out = << >>
  /\ cmd = NoCommand
  /\ ncmd = 0
  /\ text = ""
  /\ normalized = << >>

\* a new process that finds the counters and the last query of the earlier
\* one (fault variant)
Restart_keeps_counters ==
  /\ pc = "done"
  /\ progress' \in load_progress(persisted)
  /\ pc' = "start"
  /\ out' = << >>
  /\ cmd' = NoCommand
  /\ UNCHANGED << persisted, current_hint, current_step, last_query, ncmd >>
  /\ UNCHANGED pure

\* SQLCoach() in a new process after an earlier process ended: the
\* constructor loads what that run left in the file; the counters and the
\* last query exist only in memory.  Lines of all runs count towards
\* MaxCommands.
Restart ==
  /\ pc = "done"
  /\ progress' \in load_progress(persisted)
  /\ current_hint' = 0
  /\ current_step' = 0
  /\ last_query' = << >>
  /\ pc' = "start"
  /\ out' = << >>
  /\ cmd' = NoCommand
  /\ UNCHANGED << persisted, ncmd >>
  /\ UNCHANGED pure

Next ==
  \/ Startup
  \/ cmd_blank
  \/ cmd_run
  \/ cmd_hint
  \/ cmd_next
  \/ cmd_answer
  \/ cmd_explain
  \/ cmd_schema
  \/ cmd_tables
  \/ cmd_skip
  \/ cmd_lesson
  \/ cmd_progress
  \/ cmd_reset
  \/ cmd_help
  \/ cmd_clear
  \/ cmd_quit
  \/ cmd_sql
  \/ cmd_unknown
  \/ KeyboardInterrupt
  \/ EndOfInput

Spec == Init /\ [][Next]_vars

\* runs of the program one after the other on the same progress file
NextRestart ==
  \/ Next
  \/ Restart

SpecRestart == Init /\ [][NextRestart]_vars

\* skip typed again and again, up to MaxSkips lines in the run
RepeatedSkip ==
  \E line \in LinesOf["skip"] :
    /\ pc = "loop"
    /\ ncmd < MaxSkips
    /\ cmd' = Parsed[line]
    /\ ncmd' = ncmd + 1
    /\ skip_lesson
    /\ Handled
    /\ UNCHANGED last_query

\* a fresh start: no progress file
SkipInit ==
  /\ Init
  /\ persisted = << >>

\* a run of skips from a fresh start, with hints and steps looked at among
\* the first lines
SkipNext ==
  \/ Startup
  \/ RepeatedSkip
  \/ cmd_hint
  \/ cmd_next
  \/ KeyboardInterrupt
  \/ EndOfInput

SpecSkip == SkipInit /\ [][SkipNext]_vars

(***************************************************************************)
(* normalize_sql applied on its own to every short text                    *)
(***************************************************************************)

\* a letter in both cases, both whitespace characters and the terminator
Alphabet == {"a", "A", " ", "\t", ";"}

RECURSIVE TextsUpTo(_)
TextsUpTo(n) ==
  IF n = 0 THEN {""}
  ELSE LET shorter == TextsUpTo(n - 1)
       IN  shorter \cup {t \o c : t \in shorter, c \in Alphabet}

Texts == TextsUpTo(MaxTextLen)

NormInit ==
  /\ text \in Texts
  /\ normalized = << >>
  /\ persisted = << >>
  /\ progress \in load_progress(persisted)
  /\ current_hint = 0
  /\ current_step = 0
  /\ last_query = << >>
  /\ pc = "start"
  /\ out = << >>
  /\ cmd = NoCommand
  /\ ncmd = 0

\* normalize_sql(text), then normalize_sql of that result
Normalize ==
  /\ Len(normalized) < 2
  /\ normalized' = Append(normalized,
        normalize_sql(IF normalized = << >> THEN text
                      ELSE normalized[Len(normalized)]))
  /\ UNCHANGED text
  /\ UNCHANGED session

NormNext == Normalize

SpecNorm == NormInit /\ [][NormNext]_vars

(***************************************************************************)
(* Properties                                                              *)
(***************************************************************************)

Resolved == get_lesson_by_id(progress.current_lesson) # << >>

\* the step handles one input line in the given branch of handle_command
Handles(branch) == ncmd' = ncmd + 1 /\ cmd'.branch = branch

CurrentLesson == get_lesson_by_id(progress.current_lesson)[1]

Count(s, x) == Cardinality({i \in 1..Len(s) : s[i] = x})

NoDuplicates(s) == \A i, j \in 1..Len(s) : s[i] = s[j] => i = j

\* the lesson declared right after the given one: the next lesson of its
\* phase, or the first lesson of the next phase; "" after the last lesson
DeclaredSuccessor(lesson_id) ==
  LET phases == CURRICULUM.phases
      at == {<< p, j >> \in (1..Len(phases)) \X (1..Len(all_lessons)) :
               /\ j <= Len(phases[p].lessons)
               /\ phases[p].lessons[j].id = lesson_id}
      pj == CHOOSE x \in at : TRUE
  IN  IF at = {} THEN ""
      ELSE IF pj[2] < Len(phases[pj[1]].lessons)
           THEN phases[pj[1]].lessons[pj[2] + 1].id
      ELSE IF pj[1] < Len(phases) THEN phases[pj[1] + 1].lessons[1].id
      ELSE ""

Successor == [id \in LessonIds |-> DeclaredSuccessor(id)]

\* the last lesson of the last phase
FinalLessonId ==
  LET last == CURRICULUM.phases[Len(CURRICULUM.phases)]
  IN  last.lessons[Len(last.lessons)].id

\* C1: a hint command on a resolved lesson shows hints[hint_cursor] with
\* position hint_cursor+1 and the total and adds one to the cursor while
\* hints remain; with the cursor at len(hints) it reports exhaustion and
\* leaves the cursor alone.  Any hint on display is therefore the one at the
\* cursor position of the current lesson.
C1_HintContract ==
  /\ [](\A i \in 1..Len(out) :
          out[i].kind = "hint" =>
            /\ Resolved
            /\ out[i].pos = current_hint
            /\ out[i].pos \in 1..Len(CurrentLesson.hints)
            /\ out[i].total = Len(CurrentLesson.hints)
            /\ out[i].text = CurrentLesson.hints[out[i].pos])
  /\ [][(Handles("hint") /\ Resolved) =>
          LET hints == CurrentLesson.hints IN
          IF current_hint < Len(hints)
          THEN /\ out' = << Payload("hint", current_hint + 1, Len(hints),
                                    hints[current_hint + 1], << >>) >>
               /\ current_hint' = current_hint + 1
          ELSE /\ HasKind(out', "no_more_hints")
               /\ ~HasKind(out', "hint")
               /\ current_hint' = current_hint]_vars

\* C1 witness: exhaustion reported after all three hints of a lesson
C1_Witness ==
  /\ Resolved
  /\ Len(CurrentLesson.hints) = 3
  /\ current_hint = 3
  /\ HasKind(out, "no_more_hints")

\* C2 (as stated): the hint cursor is lowered only by a step that changes
\* the current lesson id, and every such step leaves it at 0 (a cursor that
\* is already 0 counts as reset)
C2_ResetsExactlyOnLessonChange ==
  [][/\ (current_hint' < current_hint)
          => (progress'.current_lesson # progress.current_lesson)
     /\ (progress'.current_lesson # progress.current_lesson)
          => current_hint' = 0]_vars

\* C2 (amended): every step that changes the current lesson id leaves the
\* hint cursor at 0; the cursor never decreases except to 0, and only in a
\* skip, lesson, reset or clear command
C2_CursorResets ==
  [][/\ (progress'.current_lesson # progress.current_lesson)
          => current_hint' = 0
     /\ (current_hint' < current_hint)
          => /\ current_hint' = 0
             /\ ncmd' = ncmd + 1
             /\ cmd'.branch \in {"skip", "lesson", "reset", "clear"}]_vars

\* C2 witness: a later lesson is on display after a skip, cursor at 0
C2_Witness ==
  /\ ncmd >= 2
  /\ HasKind(out, "lesson")
  /\ progress.current_lesson = "1.2"
  /\ progress.completed_lessons = << "1.1" >>
  /\ current_hint = 0

\* C3: right after any skip on a resolved lesson the progress file equals
\* the progress in memory
C3_SkipPersists ==
  [][(Handles("skip") /\ Resolved)
       => persisted' = save_progress(progress')]_vars

\* C4: skip on a lesson that is not the last leaves its id in the completed
\* list exactly once (appended if absent, untouched if present) and makes
\* the lesson declared right after it the current one, across phases too
C4_SkipAdvances ==
  [][(/\ Handles("skip")
      /\ Resolved
      /\ progress.current_lesson # FinalLessonId
      /\ NoDuplicates(progress.completed_lessons)) =>
        LET id == progress.current_lesson
            completed == progress.completed_lessons
        IN  /\ progress'.current_lesson = Successor[id]
            /\ Successor[id] # ""
            /\ Count(progress'.completed_lessons, id) = 1
            /\ progress'.completed_lessons =
                 IF id \in Range(completed) THEN completed
                 ELSE completed \o << id >>]_vars

\* C4 witness: a skip took the learner from the last lesson of phase 1 to
\* the first lesson of phase 2
C4_Witness ==
  /\ progress.current_lesson = "2.1"
  /\ progress.completed_lessons # << >>
  /\ progress.completed_lessons[Len(progress.completed_lessons)] = "1.4"
  /\ HasKind(out, "lesson")
  /\ persisted = << progress >>

\* C5: skip on the final lesson keeps the current lesson and leaves the
\* final id exactly once in the completed list, however often it is issued
C5_SkipOnFinal ==
  [][(/\ Handles("skip")
      /\ progress.current_lesson = FinalLessonId
      /\ NoDuplicates(progress.completed_lessons)) =>
        /\ progress'.current_lesson = FinalLessonId
        /\ Count(progress'.completed_lessons, FinalLessonId) = 1
        /\ NoDuplicates(progress'.completed_lessons)]_vars

\* C5 witness: the completion message is shown on the final lesson, which
\* is marked completed
C5_Witness ==
  /\ progress.current_lesson = FinalLessonId
  /\ FinalLessonId \in Range(progress.completed_lessons)
  /\ HasKind(out, "success")

\* C6: lesson <id> with an id of the curriculum makes it current, leaves the
\* completed list alone, saves, and sets both cursors to 0
C6_GotoResolved ==
  [][(Handles("lesson") /\ get_lesson_by_id(cmd'.arg) # << >>) =>
         /\ progress'.current_lesson = cmd'.arg
         /\ progress'.completed_lessons = progress.completed_lessons
         /\ persisted' = << progress' >>
         /\ current_hint' = 0
         /\ current_step' = 0]_vars

\* C6 witness: lesson 1.1 was skipped and then reopened with lesson 1.1
C6_Witness ==
  /\ progress.current_lesson = "1.1"
  /\ "1.1" \in Range(progress.completed_lessons)
  /\ HasKind(out, "lesson")
  /\ current_hint = 0
  /\ current_step = 0
  /\ persisted = << progress >>

\* C7: lesson <id> with an unknown id changes neither the progress, the
\* cursors, the last query nor the progress file, and the loop goes on
C7_GotoUnresolved ==
  [][(Handles("lesson") /\ get_lesson_by_id(cmd'.arg) = << >>) =>
         /\ UNCHANGED << progress, persisted, current_hint, current_step,
                         last_query >>
         /\ pc' = "loop"]_vars

\* C7 witness: the not-found box for `lesson 9.9' while a hint is revealed
C7_Witness ==
  /\ out = << Msg("error",
       "Lesson '9.9' not found. Use format like '1.2' or '3.1'") >>
  /\ current_hint > 0
  /\ pc = "loop"

\* C8: a successful submission of the literal answer of the current lesson,
\* with run or as a bare line, shows the match box
C8_AnswerAlwaysMatches ==
  [][(/\ Handles("run") \/ Handles("sql")
      /\ Resolved
      /\ last_query' = << CurrentLesson.answer >>
      /\ HasKind(out', "table")) => HasKind(out', "match")]_vars

\* C9: normalize_sql applied to its own result returns it unchanged
C9_NormalizeIdempotent ==
  Len(normalized) = 2 => normalized[2] = normalized[1]

\* lower case, one space per whitespace run, no surrounding whitespace, and
\* without one trailing ';' and the whitespace before it
Canonical(s) ==
  LET t == strip(lower(s))
      u == IF Len(t) > 0 /\ Ch(t, Len(t)) = ";"
           THEN strip(SubSeq(t, 1, Len(t) - 1)) ELSE t
  IN  re_sub_whitespace(u)

CanonicalText == [s \in SqlTexts |-> Canonical(s)]

\* C10: a successful run of a query that differs from the answer of the
\* current lesson only in whitespace runs, letter case or one trailing ';'
\* shows the match box
C10_MatchIgnoresLayout ==
  [][(/\ Handles("run")
      /\ Resolved
      /\ HasKind(out', "table")
      /\ CanonicalText[last_query'[1]] = CanonicalText[CurrentLesson.answer])
        => HasKind(out', "match")]_vars

\* the loop was left through quit or through Ctrl-C (both print the saved
\* notice; the end of input prints nothing)
ExitedWithSave == pc = "done" /\ HasKind(out, "saved")

\* C11: when the loop ends through quit/exit/q or through a keyboard
\* interrupt, the progress file holds exactly the in-memory progress of that
\* moment; the step that ends the loop does not alter the in-memory progress.
C11_ExitPersists ==
  /\ [](ExitedWithSave => persisted = << progress >>)
  /\ [][(pc = "loop" /\ pc' = "done" /\ HasKind(out', "saved"))
          => (progress' = progress /\ persisted' = << progress >>)]_vars

\* a session that completed the final lesson (a change skip does not save)
\* and then quit: the completion is in the file
C11_Witness ==
  /\ ExitedWithSave
  /\ cmd.branch = "quit"
  /\ FinalLessonId \in Range(progress.completed_lessons)
  /\ persisted = << progress >>

\* the commands the current lesson is looked up for
LessonCommands == {"run", "hint", "next", "answer", "skip", "clear"}

\* C12: with a current lesson id that is not in the curriculum, each of run,
\* hint, next, answer, skip and clear prints the "Lesson not found!" error
\* and does nothing else: progress, file, counters and last query stay as
\* they were.
C12_UnresolvedReportsNotFound ==
  [][(ncmd' = ncmd + 1 /\ cmd'.branch \in LessonCommands /\ ~Resolved)
      => (/\ Msg("error", "Lesson not found!") \in Range(out')
          /\ UNCHANGED << progress, persisted, current_hint, current_step,
                          last_query >>)]_vars

\* the record of StoredRecords whose current lesson is not in the curriculum
\* is the only start with this time stamp and exactly "1.1" completed
FromUnresolvedStart ==
  /\ progress.started_at = "2025-11-20T18:30:00"
  /\ progress.completed_lessons = << "1.1" >>

\* C13: while the current lesson id is not in the curriculum, every command
\* but quit leaves the loop running, hint, next, answer and skip change
\* neither the progress nor the two counters, and `lesson <id>' with an id of
\* the curriculum makes that lesson the current one, shown with both counters
\* at 0; a resolved current lesson stays resolved from then on.
C13_Recovery ==
  /\ [][(ncmd' = ncmd + 1 /\ ~Resolved)
         => (/\ cmd'.branch # "quit" => pc' = "loop"
             /\ cmd'.branch \in {"hint", "next", "answer", "skip"}
                  => UNCHANGED << progress, persisted, current_hint,
                                  current_step >>
             /\ (cmd'.branch = "lesson" /\ cmd'.arg \in LessonIds)
                  => (/\ progress'.current_lesson = cmd'.arg
                      /\ Resolved'
                      /\ current_hint' = 0 /\ current_step' = 0
                      /\ HasKind(out', "lesson")))]_vars
  /\ [][Resolved => Resolved']_vars

\* started on the unknown id, moved with `lesson <id>', then got a hint
C13_Witness ==
  /\ FromUnresolvedStart
  /\ ncmd = 2
  /\ Resolved
  /\ cmd.branch = "hint"
  /\ HasKind(out, "hint")
  /\ current_hint = 1

\* the step submits a query, through `run <sql>' or as a bare SQL line
SubmitsQuery == ncmd' = ncmd + 1 /\ cmd'.branch \in {"run", "sql"}

\* C14: when the executor reports an error for a submitted query (either
\* form), the error box is all that is printed (no table, no match box), the
\* loop goes on, and both counters, the current lesson, the completed list
\* and the progress file are unchanged.
C14_QueryError ==
  [][(SubmitsQuery /\ HasKind(out', "sql_error"))
      => (/\ out' = << Msg("sql_error", "SQL Error") >>
          /\ pc' = "loop"
          /\ UNCHANGED << current_hint, current_step, progress,
                          persisted >>)]_vars

\* the answer of the current lesson was submitted with `run', the executor
\* failed, and a hint had been taken before
C14_Witness ==
  /\ cmd.branch = "run"
  /\ HasKind(out, "sql_error")
  /\ Resolved
  /\ Normalized[cmd.arg] = Normalized[CurrentLesson.answer]
  /\ current_hint = 1
  /\ pc = "loop"

\* the texts that can be submitted in each form: what follows the word run,
\* and the whole line, both without the blanks around them
SubmittedTexts ==
  [b \in {"run", "sql"} |->
     {strip(IF b = "run" THEN slice_from(strip(line), 4) ELSE line) :
        line \in LinesOf[b]}]

\* C15: every query submission stores the submitted text in last_query,
\* whether the executor succeeds or fails: the text after `run' for
\* `run <sql>', the whole line for a line taken as SQL.
C15_LastQuery ==
  [][SubmitsQuery => (/\ last_query' = << cmd'.arg >>
                      /\ cmd'.arg \in SubmittedTexts[cmd'.branch])]_vars

\* a failed bare SQL line replaced the query an earlier `run' had stored
C15_Witness ==
  /\ cmd.branch = "sql"
  /\ ncmd >= 2
  /\ HasKind(out, "sql_error")
  /\ last_query = << cmd.arg >>
  /\ cmd.arg = "select 1"

\* C16: a next command on a resolved lesson shows
\* solution_steps[step_cursor] with position step_cursor+1 and the total and
\* adds one to the cursor while steps remain; with the cursor at
\* len(solution_steps) every next shows the full answer and leaves the
\* cursor alone.  Any step on display is the one at the cursor position.
C16_NextContract ==
  /\ [](\A i \in 1..Len(out) :
          out[i].kind = "step" =>
            /\ Resolved
            /\ out[i].pos = current_step
            /\ out[i].pos \in 1..Len(CurrentLesson.solution_steps)
            /\ out[i].total = Len(CurrentLesson.solution_steps)
            /\ out[i].text = CurrentLesson.solution_steps[out[i].pos])
  /\ [][(Handles("next") /\ Resolved) =>
          LET steps == CurrentLesson.solution_steps IN
          IF current_step < Len(steps)
          THEN /\ out' = << Payload("step", current_step + 1, Len(steps),
                                    steps[current_step + 1], << >>) >>
               /\ current_step' = current_step + 1
          ELSE /\ Msg("answer", CurrentLesson.answer) \in Range(out')
               /\ ~HasKind(out', "step")
               /\ current_step' = current_step]_vars

\* C16 witness: the full answer shown by the next after the last step
C16_Witness ==
  /\ Resolved
  /\ cmd.branch = "next"
  /\ current_step = Len(CurrentLesson.solution_steps)
  /\ Msg("answer", CurrentLesson.answer) \in Range(out)
  /\ HasKind(out, "no_more_steps")

\* C17: while the current lesson resolves, the hint counter lies in
\* 0..len(hints) and the step counter in 0..len(solution_steps) of the
\* current lesson, and a step that changes the current lesson leaves both
\* counters at 0.
C17_CursorBounds ==
  /\ [](Resolved =>
          /\ current_hint \in 0..Len(CurrentLesson.hints)
          /\ current_step \in 0..Len(CurrentLesson.solution_steps))
  /\ [][progress'.current_lesson # progress.current_lesson
          => (current_hint' = 0 /\ current_step' = 0)]_vars

\* C17 witness: all steps of a lesson taken after moving to it from a lesson
\* with more steps
C17_Witness ==
  /\ progress.current_lesson = "2.3"
  /\ "2.2" \in Range(progress.completed_lessons)
  /\ current_step = Len(CurrentLesson.solution_steps)
  /\ current_step < Len(get_lesson_by_id("2.2")[1].solution_steps)

\* C18: hint changes nothing but the hint counter and the screen, next
\* nothing but the step counter and the screen: progress, progress file, last
\* query and the other counter stay as they were.
C18_HintNextFrame ==
  [][/\ Handles("hint") => UNCHANGED << progress, persisted, last_query,
                                        current_step >>
     /\ Handles("next") => UNCHANGED << progress, persisted, last_query,
                                        current_hint >>]_vars

\* C18 witness: a step shown in a session that has no progress file yet,
\* with a hint taken and a query remembered
C18_Witness ==
  /\ cmd.branch = "next"
  /\ HasKind(out, "step")
  /\ current_hint = 1
  /\ last_query # << >>
  /\ persisted = << >>

\* C19: answer, explain, progress and a query submission leave both counters
\* unchanged; answer, explain and progress also leave the progress, the last
\* query and the progress file unchanged.
C19_ReadOnlyCommands ==
  [][/\ (SubmitsQuery \/ Handles("answer") \/ Handles("explain")
           \/ Handles("progress"))
          => UNCHANGED << current_hint, current_step >>
     /\ (Handles("answer") \/ Handles("explain") \/ Handles("progress"))
          => UNCHANGED << progress, last_query, persisted >>]_vars

\* C19 witness: the answer shown with both counters in the middle of the
\* lesson
C19_Witness ==
  /\ cmd.branch = "answer"
  /\ HasKind(out, "answer")
  /\ current_hint = 1
  /\ current_step = 1
  /\ current_step < Len(CurrentLesson.solution_steps)

\* C20: reset always prints its confirmation, puts both counters at 0 and
\* leaves the progress, the last query and the progress file unchanged; on a
\* resolved lesson the hint that follows shows hints[0] and the next that
\* follows shows solution_steps[0].
C20_Reset ==
  /\ [][Handles("reset")
          => (/\ current_hint' = 0 /\ current_step' = 0
              /\ HasKind(out', "reset")
              /\ pc' = "loop"
              /\ UNCHANGED << progress, last_query, persisted >>)]_vars
  /\ [][(cmd.branch = "reset" /\ Resolved)
          => (/\ Handles("hint") =>
                   out' = << Payload("hint", 1, Len(CurrentLesson.hints),
                                     CurrentLesson.hints[1], << >>) >>
              /\ Handles("next") =>
                   out' = << Payload("step", 1,
                                     Len(CurrentLesson.solution_steps),
                                     CurrentLesson.solution_steps[1],
                                     << >>) >>)]_vars

\* C20 witness: a reset as the third command of a session with a remembered
\* query and no progress file
C20_Witness ==
  /\ cmd.branch = "reset"
  /\ HasKind(out, "reset")
  /\ ncmd = 3
  /\ current_hint = 0
  /\ current_step = 0
  /\ last_query # << >>
  /\ persisted = << >>

\* the clauses of the fixed evaluation order with the keyword of each
ClauseKeywords ==
  << << "with", "WITH (CTE)" >>, << "from", "FROM" >>,
     << "join", "JOIN" >>, << "where", "WHERE" >>,
     << "group by", "GROUP BY" >>, << "having", "HAVING" >>,
     << "select", "SELECT" >>, << "distinct", "DISTINCT" >>,
     << "order by", "ORDER BY" >>, << "limit", "LIMIT" >> >>

RECURSIVE ClausesPresentFrom(_, _)
ClausesPresentFrom(sql_lower, k) ==
  IF k > Len(ClauseKeywords) THEN << >>
  ELSE (IF contains(sql_lower, ClauseKeywords[k][1])
        THEN << ClauseKeywords[k][2] >> ELSE << >>)
       \o ClausesPresentFrom(sql_lower, k + 1)

\* for every query text, the clauses whose keyword occurs in it, in the
\* fixed order
ClausesPresent == [s \in SqlTexts |-> ClausesPresentFrom(lower(s), 1)]

\* C21: explain without a submitted query prints the run-a-query-first
\* prompt and changes nothing; with a query it lists exactly the clauses
\* whose keyword occurs in last_query, whatever the case, in the fixed order
\* CTE, FROM, JOIN, WHERE, GROUP BY, HAVING, SELECT, DISTINCT, ORDER BY,
\* LIMIT.
C21_Explain ==
  /\ [][(Handles("explain") /\ last_query = << >>)
          => (/\ HasKind(out', "explain_prompt")
              /\ ~HasKind(out', "explain")
              /\ UNCHANGED << progress, persisted, current_hint,
                              current_step, last_query >>)]_vars
  /\ [][(Handles("explain") /\ last_query # << >>)
          => (/\ Len(out') = 1
              /\ out'[1].kind = "explain"
              /\ out'[1].lines = ClausesPresent[last_query[1]])]_vars

\* the first lesson of the first phase in the order of the declaration
FirstLessonId == CURRICULUM.phases[1].lessons[1].id

\* C22: without a progress file the program starts on the first lesson of
\* the first phase with nothing completed, no hint counts, both counters 0
\* and no last query.
C22_FreshStart ==
  (ncmd = 0 /\ persisted = << >>)
    => /\ progress.current_lesson = FirstLessonId
       /\ progress.completed_lessons = << >>
       /\ progress.hint_counts = << >>
       /\ current_hint = 0
       /\ current_step = 0
       /\ last_query = << >>

\* C22 witness: the first lesson on the screen of a fresh start
C22_Witness ==
  /\ ncmd = 0
  /\ persisted = << >>
  /\ pc = "loop"
  /\ \E i \in 1..Len(out) :
       out[i].kind = "lesson" /\ out[i].text = FirstLessonId /\ out[i].pos = 0

\* C23: a program start after a run that ended with quit loads exactly the
\* progress that was in memory at the quit and begins with both counters 0
\* and no last query, whatever the earlier run did.
C23_RestartRoundTrip ==
  [][(pc = "done" /\ cmd.branch = "quit" /\ pc' = "start")
      => (/\ progress' = progress
          /\ persisted' = << progress >>
          /\ current_hint' = 0
          /\ current_step' = 0
          /\ last_query' = << >>)]_vars

\* C23 witness: started again after a run that began without a file, took
\* the final lesson as completed and quit
C23_Witness ==
  /\ pc = "start"
  /\ ncmd >= 3
  /\ progress.started_at \in Now
  /\ FinalLessonId \in Range(progress.completed_lessons)
  /\ persisted = << progress >>
  /\ current_hint = 0 /\ current_step = 0 /\ last_query = << >>

\* the command words of the documented command surface, and the two further
\* words the hint branch accepts
ListedWords ==
  { "hint", "next", "answer", "solution", "explain", "schema", "tables",
    "progress", "skip", "reset", "help", "?", "clear", "cls", "quit", "exit",
    "q" }

HintAliases == {"stuck", "help me"}

\* what the dispatch rule says about a line when `words' are the command
\* words: blank, a listed command, an implicit run, or unknown.  Commands
\* are read without the blanks around them and whatever the case.
ClassOf(line, words) ==
  LET s == lower(strip(line)) IN
  IF s = "" THEN "blank"
  ELSE IF \/ s \in words
          \/ startswith(s, "run ")
          \/ startswith(s, "lesson ")
       THEN "listed"
  ELSE IF \E kw \in {"select", "with", "insert", "update", "delete"} :
            contains(s, kw)
       THEN "implicit"
  ELSE "unknown"

\* for every dispatch result, the classes and texts of the lines that have
\* this result, evaluated once
LinesOfResult(words) ==
  [c \in {Parsed[l] : l \in InputLines} |->
     {[class |-> ClassOf(l, words), sql |-> strip(l)] :
        l \in {x \in InputLines : Parsed[x] = c}}]

AsDocumented == LinesOfResult(ListedWords)

AsImplemented == LinesOfResult(ListedWords \cup HintAliases)

\* the dispatch rule for the step that handles a line of the given class
DispatchRule(k) ==
  /\ k.class = "blank"
       => /\ out' = << >>
          /\ pc' = "loop"
          /\ UNCHANGED << progress, persisted, current_hint, current_step,
                          last_query >>
  /\ k.class = "implicit"
       => /\ last_query' = << k.sql >>
          /\ HasKind(out', "table") \/ HasKind(out', "sql_error")
          /\ pc' = "loop"
          /\ UNCHANGED << progress, persisted, current_hint, current_step >>
  /\ k.class = "unknown"
       => /\ HasKind(out', "unknown")
          /\ pc' = "loop"
          /\ UNCHANGED << progress, persisted, current_hint, current_step,
                          last_query >>

\* C24 (as stated): a line that is none of run <sql>, hint, next,
\* answer|solution, explain, schema, tables, lesson <id>, progress, skip,
\* reset, help|?, clear|cls, quit|exit|q is executed as a query when it holds
\* a query keyword and is otherwise reported as unknown without a change of
\* state; a blank line changes nothing.
C24_DispatchAsDocumented ==
  [][ncmd' = ncmd + 1 => \A k \in AsDocumented[cmd'] : DispatchRule(k)]_vars

\* C24 (amended): the same with stuck and help me counted among the
\* commands, as further words for hint.
C24_Dispatch ==
  [][ncmd' = ncmd + 1 => \A k \in AsImplemented[cmd'] : DispatchRule(k)]_vars

\* C24 witness: an unknown line reported after a bare query and a hint,
\* which it left alone
C24_Witness ==
  /\ cmd.branch = "unknown"
  /\ HasKind(out, "unknown")
  /\ last_query = << "select 1" >>
  /\ current_hint = 1

\* C25: among the input lines only quit, exit and q end the loop: every
\* other line, a failing query, an unknown lesson id, an unknown command or
\* any command on an unresolved current lesson included, leaves it running.
C25_OnlyQuitEnds ==
  [][ncmd' = ncmd + 1
      => (/\ pc' \in {"loop", "done"}
          /\ pc' = "done" <=> cmd'.branch = "quit")]_vars

\* C25 witness: the loop still runs after an unknown lesson id was asked for
\* while the current lesson is unresolved and after a query failed
C25_Witness ==
  /\ pc = "loop"
  /\ ~Resolved
  /\ cmd.branch = "lesson"
  /\ cmd.arg \notin LessonIds
  /\ HasKind(out, "error")
  /\ last_query # << >>

\* C26: the completed list never holds an id twice, in memory or in the
\* file, whatever mix of skip and lesson <id> is typed.
C26_CompletedDeduplicated ==
  /\ NoDuplicates(progress.completed_lessons)
  /\ persisted # << >> => NoDuplicates(persisted[1].completed_lessons)

\* C26 witness: lesson 1.1 skipped again when it was already completed
\* (the only ways to stand on 1.2 after a skip with 1.2 completed)
C26_Witness ==
  /\ cmd.branch = "skip"
  /\ progress.current_lesson = "1.2"
  /\ progress.completed_lessons = << "1.1", "1.2" >>

\* C27: no step changes started_at or hint_counts in memory, and every
\* write of the file carries the started_at that was loaded or created at
\* the start.
C27_StartedAtKept ==
  [][/\ progress'.started_at = progress.started_at
     /\ progress'.hint_counts = progress.hint_counts
     /\ persisted' # persisted
          => /\ persisted'[1].started_at = progress.started_at
             /\ persisted'[1].hint_counts = progress.hint_counts]_vars

\* C27 witness: the first file of a fresh session, written by a skip, with
\* the time of creation
C27_Witness ==
  /\ cmd.branch = "skip"
  /\ persisted # << >>
  /\ persisted[1].started_at \in Now
  /\ persisted[1].completed_lessons # << >>

\* the lengths of the steps never go down along the sequence
NonDecreasingLengths(steps) ==
  \A i \in 1..(Len(steps) - 1) : Len(steps[i]) <= Len(steps[i + 1])

\* the lessons with at least one step whose last step is the answer, the
\* final ';' aside
EndsWithAnswer(lesson) ==
  /\ Len(lesson.solution_steps) >= 1
  /\ rstrip_semicolon(lesson.solution_steps[Len(lesson.solution_steps)])
       = rstrip_semicolon(lesson.answer)

\* the lessons of the curriculum whose steps get shorter somewhere
ShrinkingLessons ==
  {i \in 1..Len(LessonPairs) :
     ~NonDecreasingLengths(LessonPairs[i][1].solution_steps)}

\* the facts about the steps of the curriculum, evaluated once
StepsEndWithAnswer ==
  \A i \in 1..Len(LessonPairs) : EndsWithAnswer(LessonPairs[i][1])

StepsBoundedByLast ==
  \A i \in 1..Len(LessonPairs) :
    LET steps == LessonPairs[i][1].solution_steps IN
    \A j \in 1..Len(steps) : Len(steps[j]) <= Len(steps[Len(steps)])

C29_PersistedPosition ==
  persisted # << >>
    => /\ persisted[1].current_lesson = progress.current_lesson
       /\ persisted[1].started_at = progress.started_at
       /\ persisted[1].hint_counts = progress.hint_counts

\* C29 witness: after a jump and a skip of the final lesson the file has
\* the position of the memory but not yet the completion
C29_Witness ==
  /\ persisted # << >>
  /\ progress.started_at \in Now
  /\ persisted[1].current_lesson = progress.current_lesson
  /\ persisted[1].completed_lessons # progress.completed_lessons

\* C30: the end of input ends the loop and leaves the progress file exactly
\* as it was, so a completion that a skip of the final lesson recorded in
\* memory only is not in the file when the process ends.
C30_EndOfInput ==
  [][(pc = "loop" /\ pc' = "done" /\ ncmd' = ncmd /\ ~HasKind(out', "saved"))
      => (/\ persisted' = persisted
          /\ progress' = progress
          /\ (/\ persisted # << >>
              /\ FinalLessonId \in Range(progress.completed_lessons)
              /\ FinalLessonId \notin Range(persisted[1].completed_lessons))
               => FinalLessonId
                    \notin Range(persisted'[1].completed_lessons))]_vars

\* C30 witness: the process ended by the end of input with the completion
\* of the final lesson in memory and not in the file
C30_Witness ==
  /\ pc = "done"
  /\ out = << >>
  /\ persisted # << >>
  /\ FinalLessonId \in Range(progress.completed_lessons)
  /\ FinalLessonId \notin Range(persisted[1].completed_lessons)

\* C31: a current lesson that resolves stays resolvable: every id that a
\* step assigns to current_lesson is an id of the curriculum, so no step
\* leads from a resolved current lesson to an unresolved one.
C31_StaysResolvable ==
  [][/\ progress'.current_lesson # progress.current_lesson
          => /\ cmd'.branch \in {"skip", "lesson"}
             /\ progress'.current_lesson \in LessonIds
     /\ get_lesson_by_id(progress.current_lesson) # << >>
          => get_lesson_by_id(progress'.current_lesson) # << >>]_vars

\* C31 witness: the final lesson reached by a jump and a skip in a session
\* that began on the first lesson
C31_Witness ==
  /\ progress.started_at \in Now
  /\ cmd.branch = "skip"
  /\ progress.current_lesson = FinalLessonId
  /\ Resolved
  /\ HasKind(out, "lesson")

\* C32: from a fresh start, k skips (k below the number n of lessons) leave
\* the first k lessons completed, in the order of the declaration, and the
\* lesson k+1 current; the n-th skip completes the last lesson, after which
\* all n ids are completed and a skip changes nothing; the completed list
\* is never longer than n.
C32_RepeatedSkip ==
  /\ [](LET c == progress.completed_lessons
            n == get_total_lessons
        IN  /\ Len(c) <= n
            /\ c = SubSeq(all_lessons, 1, Len(c))
            /\ IndexOf(progress.current_lesson)
                 = IF Len(c) < n THEN Len(c) + 1 ELSE n)
  /\ [][Handles("skip") =>
          IF Len(progress.completed_lessons) < get_total_lessons
          THEN progress'.completed_lessons
                 = Append(progress.completed_lessons, progress.current_lesson)
          ELSE /\ Range(progress.completed_lessons) = LessonIds
               /\ UNCHANGED << progress, persisted, current_hint,
                               current_step, last_query >>]_vars

\* C32 witness: a skip typed after every lesson was completed
C32_Witness ==
  /\ cmd.branch = "skip"
  /\ ncmd > get_total_lessons
  /\ progress.completed_lessons = all_lessons
  /\ progress.current_lesson = FinalLessonId
  /\ HasKind(out, "success")

\* C33: no step removes an id from the completed list; the list changes
\* only in a skip, by the id of the lesson that was current being appended;
\* the ids of the list are ids of the curriculum.
C33_CompletedGrows ==
  /\ [](Range(progress.completed_lessons) \subseteq LessonIds)
  /\ [][progress'.completed_lessons # progress.completed_lessons
          => /\ Handles("skip")
             /\ progress.current_lesson \in LessonIds
             /\ progress'.completed_lessons
                  = Append(progress.completed_lessons,
                           progress.current_lesson)]_vars

\* C33 witness: the stored list of two lessons with the skipped lesson 2.2
\* appended
C33_Witness ==
  /\ cmd.branch = "skip"
  /\ progress.completed_lessons = << "1.1", "1.2", "2.2" >>
  /\ progress.current_lesson = "2.3"

\* C34: clear and cls show the current lesson again and leave progress,
\* last query and progress file unchanged; on a resolved lesson both
\* counters are 0 afterwards and the hint that follows shows hints[0]; on an
\* unresolved one the error is shown and the counters stay.
C34_Clear ==
  /\ [][Handles("clear")
          => (/\ UNCHANGED << progress, last_query, persisted >>
              /\ pc' = "loop"
              /\ IF Resolved
                 THEN /\ current_hint' = 0 /\ current_step' = 0
                      /\ \E i \in 1..Len(out') :
                           /\ out'[i].kind = "lesson"
                           /\ out'[i].text = progress.current_lesson
                 ELSE /\ UNCHANGED << current_hint, current_step >>
                      /\ ~HasKind(out', "lesson"))]_vars
  /\ [][(cmd.branch = "clear" /\ Resolved /\ Handles("hint"))
          => out' = << Payload("hint", 1, Len(CurrentLesson.hints),
                               CurrentLesson.hints[1], << >>) >>]_vars

\* C34 witness: the lesson shown again by a clear as the third line of a
\* session with a remembered query and no progress file
C34_Witness ==
  /\ cmd.branch = "clear"
  /\ HasKind(out, "lesson")
  /\ ncmd = 3
  /\ current_hint = 0
  /\ current_step = 0
  /\ last_query # << >>
  /\ persisted = << >>

\* C35: once a query was submitted, last_query is never absent or empty
\* again in the run and changes only in a query submission; skip, lesson
\* <id>, reset and clear leave it alone, and explain shows the stored query
\* also after the lesson changed.
C35_LastQuerySurvives ==
  /\ [](last_query # << >> => last_query[1] # "")
  /\ [][last_query # << >>
          => (/\ last_query' # << >>
              /\ last_query' # last_query => SubmitsQuery
              /\ Handles("explain")
                   => (/\ Len(out') = 1
                       /\ out'[1].kind = "explain"
                       /\ out'[1].text = last_query[1]))]_vars

\* C35 witness: a new lesson on the screen after a skip, with the query of
\* the lesson before still remembered
C35_Witness ==
  /\ cmd.branch = "skip"
  /\ HasKind(out, "lesson")
  /\ last_query = << Answer("1.1") >>
  /\ progress.current_lesson = "1.2"

====
